---- MODULE Spec2Model ----
(***************************************************************************)
(* A model of img.py: the 256-colour palette and the quantizer tables that *)
(* the module builds when it is imported, process_image (the half-block    *)
(* renderer), safe_print (the output guard) and main (single image, stdin  *)
(* and gallery mode).                                                      *)
(*                                                                         *)
(* Strings the program computes with are modelled by what they hold: a hex *)
(* string is the sequence of its hex digits (0..15), a colour code is the  *)
(* sequence of its decimal digits, and the text written to standard output *)
(* is a sequence of tokens (escape sequences, glyphs, newlines, padding).  *)
(***************************************************************************)
EXTENDS Integers, Sequences, FiniteSets, TLC

VARIABLES
    \* ---- module import (img.py lines 12-69) and get_colorcode_from_rgb
    ipc,                  \* position of the import: which loop is running
    i,                    \* loop counter of the loop that is running
    closest_hex_lookup,   \* the dict create_closest_valid_color_dict fills
    palette,              \* the list get_palette fills
    color_code,           \* get_palette's running colour code
    HEX_2_COLORCODE,      \* the dict built from get_palette()
    rgb_tuple,            \* argument of the last get_colorcode_from_rgb call
    colorcode,            \* its result (KeyError if the lookup raised)
    \* ---- process_image's loops on a resized image
    im,                   \* the resized image: [w, h, px]
    output,               \* process_image's return value
    \* ---- main
    image_paths,          \* args.image_paths
    cols_arg,             \* args.cols (None when -c is absent)
    rows_arg,             \* args.rows (None when -r is absent)
    fs,                   \* what each path holds: absent, garbage or an image
    stdin_ok,             \* whether standard input holds a decodable image
    term,                 \* the terminal's (columns, rows), or None: no terminal
    pc,                   \* main's position
    image,                \* the lines of the image being printed (single mode)
    n,                    \* index of the next line to print / of the next path
    line,                 \* gallery: the next line of the grid row to print
    sorted_image_paths,
    images_per_row,
    current_row_images,
    current_row_paths,
    stdout,               \* everything written to standard output, in order
    opened,               \* every target handed to Image.open, in order
    rendered,             \* every target handed to process_image, in order
    term_queries,         \* who called os.get_terminal_size, in order
    sizes,                \* every bounding box handed to im.thumbnail
    printed_rows          \* gallery: the paths of each grid row printed

import_vars == <<ipc, i, closest_hex_lookup, palette, color_code, HEX_2_COLORCODE,
                 rgb_tuple, colorcode>>
render_vars == <<im, output>>
main_vars == <<image_paths, cols_arg, rows_arg, fs, stdin_ok, term, pc, image, n, line,
               sorted_image_paths, images_per_row, current_row_images,
               current_row_paths, stdout, opened, rendered, term_queries, sizes,
               printed_rows>>
vars == <<import_vars, render_vars, main_vars>>

\* None, and an optional value v, as sequences: <<>> and <<v>>
None == <<>>

\* the result of a dict lookup that raised KeyError
KeyError == <<-1>>

(***************************************************************************)
(* String conversions.                                                     *)
(***************************************************************************)
RECURSIVE IntOfHex(_)
\* int(value, 16)
IntOfHex(h) ==
    IF h = <<>> THEN 0
    ELSE 16 * IntOfHex(SubSeq(h, 1, Len(h) - 1)) + h[Len(h)]

\* "{:02x}".format(v)
FormatHex02(v) == IF v < 16 THEN <<0, v>> ELSE <<v \div 16, v % 16>>

RECURSIVE Str(_)
\* str(v) of a non-negative integer: its decimal digits, no padding
Str(v) == IF v < 10 THEN <<v>> ELSE Append(Str(v \div 10), v % 10)

RECURSIVE IntOfStr(_)
\* the integer a colour code reads as
IntOfStr(s) ==
    IF s = <<>> THEN 0
    ELSE 10 * IntOfStr(SubSeq(s, 1, Len(s) - 1)) + s[Len(s)]

Abs(v) == IF v < 0 THEN -v ELSE v

RECURSIVE MinOf(_)
\* min(distances)
MinOf(s) ==
    IF Len(s) = 1 THEN s[1]
    ELSE LET m == MinOf(Tail(s)) IN IF s[1] <= m THEN s[1] ELSE m

\* list.index(v): the position of the LAST occurrence (a wrong tie-break)
LastIndexOf(s, v) ==
    CHOOSE k \in 1..Len(s) : s[k] = v /\ \A j \in (k + 1)..Len(s) : s[j] # v

\* list.index(v): the position of the first occurrence
IndexOf(s, v) ==
    CHOOSE k \in 1..Len(s) : s[k] = v /\ \A j \in 1..(k - 1) : s[j] # v

(***************************************************************************)
(* get_palette                                                             *)
(***************************************************************************)
\* the literal list of the 16 basic colours
basic_colors == <<
    << <<0, 0>>, <<0, 0, 0, 0, 0, 0>> >>,
    << <<0, 1>>, <<8, 0, 0, 0, 0, 0>> >>,
    << <<0, 2>>, <<0, 0, 8, 0, 0, 0>> >>,
    << <<0, 3>>, <<8, 0, 8, 0, 0, 0>> >>,
    << <<0, 4>>, <<0, 0, 0, 0, 8, 0>> >>,
    << <<0, 5>>, <<8, 0, 0, 0, 8, 0>> >>,
    << <<0, 6>>, <<0, 0, 8, 0, 8, 0>> >>,
    << <<0, 7>>, <<12, 0, 12, 0, 12, 0>> >>,
    << <<0, 8>>, <<8, 0, 8, 0, 8, 0>> >>,
    << <<0, 9>>, <<15, 15, 0, 0, 0, 0>> >>,
    << <<1, 0>>, <<0, 0, 15, 15, 0, 0>> >>,
    << <<1, 1>>, <<15, 15, 15, 15, 0, 0>> >>,
    << <<1, 2>>, <<0, 0, 0, 0, 15, 15>> >>,
    << <<1, 3>>, <<15, 15, 0, 0, 15, 15>> >>,
    << <<1, 4>>, <<0, 0, 15, 15, 15, 15>> >>,
    << <<1, 5>>, <<15, 15, 15, 15, 15, 15>> >> >>

\* values = ["00", "5f", "87", "af", "d7", "ff"]
values == << <<0, 0>>, <<5, 15>>, <<8, 7>>, <<10, 15>>, <<13, 7>>, <<15, 15>> >>

\* gray_values = [8 + 10 * i for i in range(24)]
gray_values == [k \in 1..24 |-> 8 + 10 * (k - 1)]

\* The k-th iteration (k = 0..215) of the nested loops with B outermost (a
\* wrong nesting order)
grid_entry_b_outer(code, k) ==
    <<Str(code),
      values[(k % 6) + 1] \o values[((k \div 6) % 6) + 1] \o values[(k \div 36) + 1]>>

\* The k-th iteration (k = 0..215) of `for r.. for g.. for b..`: what it appends
grid_entry(code, k) ==
    <<Str(code),
      values[(k \div 36) + 1] \o values[((k \div 6) % 6) + 1] \o values[(k % 6) + 1]>>

\* The k-th iteration (k = 1..24) of `for i in gray_values`: what it appends
gray_entry(code, k) ==
    <<Str(code),
      FormatHex02(gray_values[k]) \o FormatHex02(gray_values[k])
          \o FormatHex02(gray_values[k])>>

\* get_palette(): the list it returns
get_palette ==
    basic_colors
        \o [k \in 1..216 |-> grid_entry(16 + (k - 1), k - 1)]
        \o [k \in 1..24 |-> gray_entry(232 + (k - 1), k)]

(***************************************************************************)
(* create_closest_valid_color_dict                                         *)
(***************************************************************************)
\* distances = [abs(i - int(value, 16)) for value in values]
distances(b) == [k \in 1..Len(values) |-> Abs(b - IntOfHex(values[k]))]

\* the loop body with the last minimal distance taken (a wrong tie-break)
closest_value_last(b) == values[LastIndexOf(distances(b), MinOf(distances(b)))]

\* the loop body: values[distances.index(min(distances))]
closest_value(b) == values[IndexOf(distances(b), MinOf(distances(b)))]

\* CLOSEST_VALID_COLORS = create_closest_valid_color_dict()
CLOSEST_VALID_COLORS == [b \in 0..255 |-> closest_value(b)]

(***************************************************************************)
(* HEX_2_COLORCODE and get_colorcode_from_rgb                              *)
(***************************************************************************)
\* A dict comprehension that keeps the FIRST colour code of a hex colour (a
\* wrong insertion rule)
dict_put_first(d, key, val) == d @@ (key :> val)

\* d[key] = val: a later entry of the same key replaces the earlier one
dict_put(d, key, val) == (key :> val) @@ d

\* {hexcolor: colorcode for colorcode, hexcolor in pal}: each hex colour of the
\* list, with the colour code of the last entry that holds it
dict_of(pal) ==
    [h \in {pal[k][2] : k \in 1..Len(pal)} |->
        pal[CHOOSE k \in 1..Len(pal) :
                /\ pal[k][2] = h
                /\ \A j \in (k + 1)..Len(pal) : pal[j][2] # h][1]]

\* HEX_2_COLORCODE as the import leaves it
Hex2Colorcode == dict_of(get_palette)

\* get_colorcode_from_rgb with the tables passed in
colorcode_from(closest, hex2code, rgb) ==
    LET hexcolor == closest[rgb[1]] \o closest[rgb[2]] \o closest[rgb[3]]
    IN  IF hexcolor \in DOMAIN hex2code THEN hex2code[hexcolor] ELSE KeyError

\* get_colorcode_from_rgb(rgb_tuple), once the module is imported
get_colorcode_from_rgb(rgb) == colorcode_from(CLOSEST_VALID_COLORS, Hex2Colorcode, rgb)

(***************************************************************************)
(* Module import, step by step: line 66 runs the loop of                   *)
(* create_closest_valid_color_dict, line 69 runs get_palette's loops and   *)
(* then the dict comprehension; afterwards get_colorcode_from_rgb can be   *)
(* called.                                                                 *)
(***************************************************************************)
\* The channel values get_colorcode_from_rgb is called with: the grid values,
\* the four ties, the values next to the class boundaries, and the channel
\* values of the basic colours and of the ends of the gray ramp.
ChannelSamples ==
    {0, 8, 47, 48, 95, 114, 115, 116, 128, 135, 155, 175, 192, 195, 215, 235, 238, 255}

RenderIdle == im = None /\ output = None

MainIdle ==
    /\ image_paths = <<>> /\ cols_arg = None /\ rows_arg = None
    /\ fs = <<>> /\ stdin_ok = FALSE /\ term = None /\ pc = "idle"
    /\ image = <<>> /\ n = 0 /\ line = 0
    /\ sorted_image_paths = <<>> /\ images_per_row = 0
    /\ current_row_images = <<>> /\ current_row_paths = <<>> /\ stdout = <<>>
    /\ opened = <<>> /\ rendered = <<>> /\ term_queries = <<>> /\ sizes = <<>>
    /\ printed_rows = <<>>

ImportInit ==
    /\ ipc = "closest" /\ i = 0
    /\ closest_hex_lookup = <<>> /\ palette = <<>> /\ color_code = 0
    /\ HEX_2_COLORCODE = <<>> /\ rgb_tuple = None /\ colorcode = None
    /\ RenderIdle /\ MainIdle

\* for i in range(256): closest_hex_lookup[i] = values[index_of_minimum]
ClosestStep ==
    /\ ipc = "closest" /\ i < 256
    /\ closest_hex_lookup' = dict_put(closest_hex_lookup, i, closest_value(i))
    /\ i' = i + 1
    /\ UNCHANGED <<ipc, palette, color_code, HEX_2_COLORCODE, rgb_tuple, colorcode>>
    /\ UNCHANGED <<render_vars, main_vars>>

\* the loop ends; get_palette starts: palette = [...16 entries], color_code = 16
PaletteStart ==
    /\ ipc = "closest" /\ i = 256
    /\ palette' = basic_colors /\ color_code' = 16
    /\ ipc' = "grid" /\ i' = 0
    /\ UNCHANGED <<closest_hex_lookup, HEX_2_COLORCODE, rgb_tuple, colorcode>>
    /\ UNCHANGED <<render_vars, main_vars>>

\* one iteration of the r, g, b loops
GridStep ==
    /\ ipc = "grid" /\ i < 216
    /\ palette' = Append(palette, grid_entry(color_code, i))
    /\ color_code' = color_code + 1
    /\ i' = i + 1
    /\ UNCHANGED <<ipc, closest_hex_lookup, HEX_2_COLORCODE, rgb_tuple, colorcode>>
    /\ UNCHANGED <<render_vars, main_vars>>

GridEnd ==
    /\ ipc = "grid" /\ i = 216
    /\ ipc' = "gray" /\ i' = 1
    /\ UNCHANGED <<closest_hex_lookup, palette, color_code, HEX_2_COLORCODE,
                   rgb_tuple, colorcode>>
    /\ UNCHANGED <<render_vars, main_vars>>

\* one iteration of `for i in gray_values`
GrayStep ==
    /\ ipc = "gray" /\ i <= Len(gray_values)
    /\ palette' = Append(palette, gray_entry(color_code, i))
    /\ color_code' = color_code + 1
    /\ i' = i + 1
    /\ UNCHANGED <<ipc, closest_hex_lookup, HEX_2_COLORCODE, rgb_tuple, colorcode>>
    /\ UNCHANGED <<render_vars, main_vars>>

\* get_palette returns; the dict comprehension of line 69 starts
PaletteReturn ==
    /\ ipc = "gray" /\ i > Len(gray_values)
    /\ ipc' = "dict" /\ i' = 1
    /\ UNCHANGED <<closest_hex_lookup, palette, color_code, HEX_2_COLORCODE,
                   rgb_tuple, colorcode>>
    /\ UNCHANGED <<render_vars, main_vars>>

\* one entry of {hexcolor: colorcode for colorcode, hexcolor in get_palette()}
DictStep ==
    /\ ipc = "dict" /\ i <= Len(palette)
    /\ HEX_2_COLORCODE' = dict_put(HEX_2_COLORCODE, palette[i][2], palette[i][1])
    /\ i' = i + 1
    /\ UNCHANGED <<ipc, closest_hex_lookup, palette, color_code, rgb_tuple, colorcode>>
    /\ UNCHANGED <<render_vars, main_vars>>

DictEnd ==
    /\ ipc = "dict" /\ i > Len(palette)
    /\ ipc' = "ready"
    /\ UNCHANGED <<i, closest_hex_lookup, palette, color_code, HEX_2_COLORCODE,
                   rgb_tuple, colorcode>>
    /\ UNCHANGED <<render_vars, main_vars>>

\* a call of get_colorcode_from_rgb
GetColorcode ==
    /\ ipc = "ready"
    /\ \E r \in ChannelSamples, g \in ChannelSamples, b \in ChannelSamples :
          /\ rgb_tuple' = <<r, g, b>>
          /\ colorcode' = colorcode_from(closest_hex_lookup, HEX_2_COLORCODE, <<r, g, b>>)
    /\ ipc' = "called"
    /\ UNCHANGED <<i, closest_hex_lookup, palette, color_code, HEX_2_COLORCODE>>
    /\ UNCHANGED <<render_vars, main_vars>>

ImportNext ==
    \/ ClosestStep \/ PaletteStart \/ GridStep \/ GridEnd \/ GrayStep
    \/ PaletteReturn \/ DictStep \/ DictEnd \/ GetColorcode

SpecImport == ImportInit /\ [][ImportNext]_vars

\* The tables the import leaves behind are the ones the renderer reads.
ImportedTables ==
    ipc = "ready" =>
        /\ closest_hex_lookup = CLOSEST_VALID_COLORS
        /\ palette = get_palette
        /\ HEX_2_COLORCODE = Hex2Colorcode

(***************************************************************************)
(* The palette and the quantizer: claims C1, C2, C3 (under SpecImport).    *)
(***************************************************************************)
\* the six grid values, in the order the claims list them
GridValues == <<0, 95, 135, 175, 215, 255>>

\* the (r, g, b) a hex colour reads as
RGBOf(hex) ==
    <<IntOfHex(SubSeq(hex, 1, 2)), IntOfHex(SubSeq(hex, 3, 4)), IntOfHex(SubSeq(hex, 5, 6))>>

\* the position (0..5) of the grid value nearest to b, the smaller one on a tie
NearestPos(b) ==
    CHOOSE k \in 0..5 : \A j \in 0..5 :
        \/ Abs(b - GridValues[k + 1]) < Abs(b - GridValues[j + 1])
        \/ Abs(b - GridValues[k + 1]) = Abs(b - GridValues[j + 1]) /\ k <= j

\* For all 256^3 triples: get_colorcode_from_rgb treats the channels one by
\* one, so it is enough that the imported tables send every byte to its
\* nearest grid value and every triple of grid values to its grid code.
C1_TablesCoverEveryTriple ==
    ipc = "ready" =>
        /\ \A b \in 0..255 :
              /\ b \in DOMAIN closest_hex_lookup
              /\ IntOfHex(closest_hex_lookup[b]) = GridValues[NearestPos(b) + 1]
        /\ \A r \in 0..5, g \in 0..5, b \in 0..5 :
              LET key == FormatHex02(GridValues[r + 1]) \o FormatHex02(GridValues[g + 1])
                            \o FormatHex02(GridValues[b + 1])
              IN  /\ key \in DOMAIN HEX_2_COLORCODE
                  /\ IntOfStr(HEX_2_COLORCODE[key]) = 16 + 36 * r + 6 * g + b

\* C1: every call of get_colorcode_from_rgb returns a colour code (the lookup
\* never raises) that reads as 16 + 36*r_i + 6*g_i + b_i, where r_i, g_i, b_i
\* are the positions of the nearest grid values of the channels; the code is
\* in 16..231, never a basic code 0..15 nor a gray code 232..255, and black,
\* red and white give 16, 196 and 231. The calls made are the sampled triples;
\* the first conjunct extends the result to every triple.
C1_ColorcodeIsGridIndex ==
    /\ C1_TablesCoverEveryTriple
    /\ ipc = "called" =>
        /\ colorcode # KeyError
        /\ IntOfStr(colorcode) \in 16..231
        /\ IntOfStr(colorcode) =
              16 + 36 * NearestPos(rgb_tuple[1]) + 6 * NearestPos(rgb_tuple[2])
                 + NearestPos(rgb_tuple[3])
        /\ rgb_tuple = <<0, 0, 0>> => IntOfStr(colorcode) = 16
        /\ rgb_tuple = <<255, 0, 0>> => IntOfStr(colorcode) = 196
        /\ rgb_tuple = <<255, 255, 255>> => IntOfStr(colorcode) = 231

\* C1's case: pure red, which is also basic colour 9, has been looked up
C1_Witness ==
    ipc = "called" /\ rgb_tuple = <<255, 0, 0>> /\ colorcode = <<1, 9, 6>>

\* C2: the list get_palette returns has 256 entries whose codes read 0..255 in
\* list order; the first 16 are the basic table (0 black, 15 white); entry
\* 16 + 36r + 6g + b is (v[r], v[g], v[b]), so entry 231 is white; entry
\* 232 + k is the gray 8 + 10k, strictly increasing from 8 to 238; and no gray
\* entry has the colour of a grid entry.
C2_PaletteLayout ==
    ipc \in {"dict", "ready"} =>
        /\ Len(palette) = 256
        /\ \A k \in 1..256 : IntOfStr(palette[k][1]) = k - 1
        /\ SubSeq(palette, 1, 16) = basic_colors
        /\ RGBOf(palette[1][2]) = <<0, 0, 0>>
        /\ RGBOf(palette[16][2]) = <<255, 255, 255>>
        /\ \A r \in 0..5, g \in 0..5, b \in 0..5 :
              RGBOf(palette[16 + 36 * r + 6 * g + b + 1][2])
                 = <<GridValues[r + 1], GridValues[g + 1], GridValues[b + 1]>>
        /\ RGBOf(palette[232][2]) = <<255, 255, 255>>
        /\ \A k \in 0..23 :
              RGBOf(palette[232 + k + 1][2]) = <<8 + 10 * k, 8 + 10 * k, 8 + 10 * k>>
        /\ \A k \in 0..22 :
              RGBOf(palette[232 + k + 1][2])[1] < RGBOf(palette[232 + k + 2][2])[1]
        /\ RGBOf(palette[256][2]) = <<238, 238, 238>>
        /\ \A k \in 233..256, j \in 17..232 : palette[k][2] # palette[j][2]

\* C2's case: get_palette has returned its list
C2_Witness ==
    /\ ipc = "dict" /\ i = 1 /\ Len(palette) = 256
    /\ palette[232] = <<<<2, 3, 1>>, <<15, 15, 15, 15, 15, 15>>>>

\* C3: every entry of the table is a grid value at minimal distance from its
\* byte, the smaller one on a tie; the finished table covers 0..255, sends the
\* ties 115, 155, 195, 235 to 95, 135, 175, 215, and 0, 255, 120 to 0, 255, 135.
C3_NearestGridChannel ==
    /\ \A b \in DOMAIN closest_hex_lookup :
          LET v == IntOfHex(closest_hex_lookup[b])
          IN  /\ \E k \in 1..6 : v = GridValues[k]
              /\ \A k \in 1..6 :
                    /\ Abs(b - v) <= Abs(b - GridValues[k])
                    /\ Abs(b - v) = Abs(b - GridValues[k]) => v <= GridValues[k]
    /\ ipc # "closest" =>
          /\ DOMAIN closest_hex_lookup = 0..255
          /\ \A k \in 1..4 :
                IntOfHex(closest_hex_lookup[GridValues[k + 1] + 20]) = GridValues[k + 1]
          /\ IntOfHex(closest_hex_lookup[0]) = 0
          /\ IntOfHex(closest_hex_lookup[255]) = 255
          /\ IntOfHex(closest_hex_lookup[120]) = 135

\* C3's case: the table is complete and holds the tie 115
C3_Witness ==
    /\ ipc = "grid" /\ DOMAIN closest_hex_lookup = 0..255
    /\ closest_hex_lookup[115] = <<5, 15>>

(***************************************************************************)
(* process_image: the loops over the resized image (lines 94-113).         *)
(***************************************************************************)
\* the tokens a line is made of
Bg(code) == <<"bg", code>>          \* "\033[48;5;{}m".format(colorcode)
Fg(code) == <<"fg", code>>          \* "\033[38;5;{}m".format(colorcode)
Glyph == <<"glyph", <<>>>>          \* the lower half block
Reset == <<"reset", <<>>>>          \* "\033[0m"

\* len(range(start, stop, step)) for step > 0
RangeLen(start, stop, step) ==
    IF stop <= start THEN 0 ELSE (stop - start + step - 1) \div step

\* range(start, stop, step)[k - 1]
RangeAt(start, step, k) == start + step * (k - 1)

\* p[:3]
FirstThree(p) == SubSeq(p, 1, 3)

\* the loop body with top and bottom exchanged (a wrong pairing)
emission_swapped(img, x, y) ==
    << Bg(get_colorcode_from_rgb(FirstThree(img.px[<<x, y>>]))),
       Fg(get_colorcode_from_rgb(FirstThree(img.px[<<x, y - 1>>]))),
       Glyph >>

\* the body of the x loop: background_color + foreground_color + char
emission(img, x, y) ==
    << Bg(get_colorcode_from_rgb(FirstThree(img.px[<<x, y - 1>>]))),
       Fg(get_colorcode_from_rgb(FirstThree(img.px[<<x, y>>]))),
       Glyph >>

RECURSIVE line_upto(_, _, _)
\* `line` after the x loop has run for x = 0 .. upto - 1
line_upto(img, y, upto) ==
    IF upto = 0 THEN <<>>
    ELSE line_upto(img, y, upto - 1) \o emission(img, upto - 1, y)

\* the body of the y loop without the closing reset (a forgotten line 111)
render_line_no_reset(img, y) == line_upto(img, y, RangeLen(0, img.w, 1))

\* the body of the y loop: the line it appends to output
render_line(img, y) == Append(line_upto(img, y, RangeLen(0, img.w, 1)), Reset)

\* output, after `for y in range(1, im.size[1], 2)`
render(img) ==
    [k \in 1..RangeLen(1, img.h, 2) |-> render_line(img, RangeAt(1, 2, k))]

(***************************************************************************)
(* The renderer on every small image: claims C4, C5 (under SpecRender).    *)
(***************************************************************************)
MaxW == 2
MaxH == 3

\* the pixels an image is made of: one with an alpha channel, one without
Pixels == { <<255, 0, 0, 128>>, <<10, 120, 235>> }

\* every image of width w and height h
ImagesOf(w, h) ==
    { [w |-> w, h |-> h, px |-> f] : f \in [(0..(w - 1)) \X (0..(h - 1)) -> Pixels] }

ImportIdle ==
    /\ ipc = "idle" /\ i = 0
    /\ closest_hex_lookup = <<>> /\ palette = <<>> /\ color_code = 0
    /\ HEX_2_COLORCODE = <<>> /\ rgb_tuple = None /\ colorcode = None

RenderInit ==
    /\ \E w \in 0..MaxW, h \in 0..MaxH : im \in ImagesOf(w, h)
    /\ output = None
    /\ ImportIdle /\ MainIdle

\* process_image from line 94 on, for the resized image im
Render ==
    /\ output = None
    /\ output' = <<render(im)>>
    /\ UNCHANGED im
    /\ UNCHANGED <<import_vars, main_vars>>

RenderNext == Render

SpecRender == RenderInit /\ [][RenderNext]_vars

\* the colour code the claims give for a pixel, from its first three channels
ExpectedCode(p) ==
    Str(16 + 36 * NearestPos(p[1]) + 6 * NearestPos(p[2]) + NearestPos(p[3]))

\* C4: process_image returns floor(H/2) lines (none when H is 0 or 1; the last
\* row of an odd H makes no line); each line is W emissions (background,
\* foreground, glyph) followed by one reset, which occurs nowhere else in it.
C4_LineShape ==
    output # None =>
        LET out == output[1]
        IN  /\ Len(out) = im.h \div 2
            /\ im.h <= 1 => out = <<>>
            /\ \A k \in 1..Len(out) :
                  /\ Len(out[k]) = 3 * im.w + 1
                  /\ \A x \in 0..(im.w - 1) :
                        /\ out[k][3 * x + 1][1] = "bg"
                        /\ out[k][3 * x + 2][1] = "fg"
                        /\ out[k][3 * x + 3] = Glyph
                  /\ out[k][3 * im.w + 1] = Reset
                  /\ \A j \in 1..(3 * im.w) : out[k][j] # Reset

\* C4's case: an image of odd height 3 and width 2 has been rendered to one line
C4_Witness ==
    output # None /\ im.h = 3 /\ im.w = 2 /\ Len(output[1]) = 1

MaxPaths == 3

\* the path names on the command line and in the current directory
Paths == {"-", "a", "b"}

\* sys.stdin.buffer, as a target of Image.open
STDIN == "<stdin>"

\* the order of Path objects: "-" < "a" < "b"
PathRank(p) == CASE p = "-" -> 0 [] p = "a" -> 1 [] p = "b" -> 2

\* an image of one colour
Solid(w, h, p) == [w |-> w, h |-> h, px |-> [xy \in (0..(w - 1)) \X (0..(h - 1)) |-> p]]

\* what Image.open decodes from a target that holds an image
Decoded(target) ==
    CASE target = STDIN -> Solid(1, 3, <<10, 120, 235>>)
      [] target = "-" -> Solid(2, 5, <<255, 0, 0, 128>>)
      [] target = "a" -> Solid(1, 2, <<255, 0, 0, 128>>)
      [] target = "b" -> Solid(2, 4, <<10, 120, 235>>)

\* whether Image.open(target) returns (rather than raises)
CanOpen(target) == IF target = STDIN THEN stdin_ok ELSE fs[target] = "image"

Max(a, b) == IF a >= b THEN a ELSE b

\* im.thumbnail(size): an image that fits, unchanged; a larger one scaled down
\* into the box with its aspect ratio kept, no side below one pixel
Thumbnail(img, size) ==
    IF img.w <= size[1] /\ img.h <= size[2] THEN img
    ELSE LET by_width == size[1] * img.h <= size[2] * img.w
             w2 == IF by_width THEN size[1] ELSE Max(1, (img.w * size[2]) \div img.h)
             h2 == IF by_width THEN Max(1, (img.h * size[1]) \div img.w) ELSE size[2]
         IN  [w |-> w2, h |-> h2,
              px |-> [xy \in (0..(w2 - 1)) \X (0..(h2 - 1)) |->
                         img.px[<<(xy[1] * img.w) \div w2, (xy[2] * img.h) \div h2>>]]]

\* `not v` for an optional integer: None and 0 are both false
Falsy(v) == v = None \/ v[1] = 0

(***************************************************************************)
(* is_valid_image, process_image, safe_print, print                        *)
(***************************************************************************)
\* is_valid_image(path): Image.open returned
is_valid_image(path) == CanOpen(path)

\* process_image(image, cols, rows): the exception it raises ("" if none), what
\* it called on the way, the box it handed to thumbnail, and the lines returned
process_image(target, cols, rows) ==
    IF term = None
    THEN [exc |-> "OSError", queried |-> TRUE, opened |-> FALSE, size |-> None,
          lines |-> <<>>]
    ELSE LET c == IF Falsy(cols) THEN term[1] ELSE cols[1]
             r == IF Falsy(rows) THEN term[2] ELSE rows[1]
             size == <<c, r * 2>>
         IN  IF ~CanOpen(target)
             THEN [exc |-> "DecodeError", queried |-> TRUE, opened |-> TRUE,
                   size |-> None, lines |-> <<>>]
             ELSE [exc |-> "", queried |-> TRUE, opened |-> TRUE, size |-> <<size>>,
                   lines |-> render(Thumbnail(Decoded(target), size))]

Nl == <<"nl", <<>>>>                \* "\n"
Sep == <<"sep", <<>>>>              \* column_separator = "  "
Blank(cols) == <<"blank", cols>>    \* blank_line = " " * cols
Hdr(path, cols) == <<"hdr", <<path, cols>>>>   \* "{:{}}".format(str(path), cols)

\* print(text): the text and a newline
print(text) == Append(text, Nl)

\* safe_print that resets only when the block ended normally (no finally)
safe_print_exit_no_finally(raised) == IF raised THEN <<>> ELSE <<Reset>>

\* what safe_print writes when its block is left, normally or by an exception
safe_print_exit(raised) == <<Reset>>

RECURSIVE Join(_, _)
\* sep.join(parts), parts being token sequences
Join(parts, sep) ==
    IF parts = <<>> THEN <<>>
    ELSE IF Len(parts) = 1 THEN parts[1]
    ELSE Join(SubSeq(parts, 1, Len(parts) - 1), sep) \o <<sep>> \o parts[Len(parts)]

RECURSIVE MaxLen(_)
\* max([len(im) for im in images])
MaxLen(images) ==
    IF Len(images) = 1 THEN Len(images[1])
    ELSE Max(Len(images[1]), MaxLen(Tail(images)))

RECURSIVE FilterValid(_)
\* [path for path in s if is_valid_image(path)]
FilterValid(s) ==
    IF s = <<>> THEN <<>>
    ELSE IF is_valid_image(s[1]) THEN <<s[1]>> \o FilterValid(Tail(s))
    ELSE FilterValid(Tail(s))

RECURSIVE sorted(_)
\* sorted(s): stable, ascending by path
sorted(s) ==
    IF s = <<>> THEN <<>>
    ELSE LET rest == sorted(SubSeq(s, 1, Len(s) - 1))
             x == s[Len(s)]
             k == Cardinality({j \in 1..Len(rest) : PathRank(rest[j]) <= PathRank(x)})
         IN  SubSeq(rest, 1, k) \o <<x>> \o SubSeq(rest, k + 1, Len(rest))

RECURSIVE Existing(_)
Existing(s) ==
    IF s = <<>> THEN <<>>
    ELSE IF fs[s[1]] # "absent" THEN <<s[1]>> \o Existing(Tail(s))
    ELSE Existing(Tail(s))

\* Path().iterdir(): the entries of the current directory, in directory order
iterdir == Existing(<<"b", "-", "a">>)

(***************************************************************************)
(* main                                                                    *)
(***************************************************************************)
RECURSIVE SeqsOf(_, _)
\* every sequence over S of length exactly len
SeqsOf(S, len) ==
    IF len = 0 THEN {<<>>}
    ELSE {Append(q, x) : q \in SeqsOf(S, len - 1), x \in S}

MainInit ==
    /\ \E len \in 0..MaxPaths : image_paths \in SeqsOf(Paths, len)
    /\ cols_arg \in {None, <<2>>}
    /\ rows_arg \in {None, <<1>>}
    /\ fs \in [Paths -> {"absent", "garbage", "image"}]
    /\ stdin_ok \in BOOLEAN
    /\ term \in {None, <<3, 1>>, <<84, 2>>}
    /\ pc = "start"
    /\ image = <<>> /\ n = 0 /\ line = 0
    /\ sorted_image_paths = <<>> /\ images_per_row = 0
    /\ current_row_images = <<>> /\ current_row_paths = <<>> /\ stdout = <<>>
    /\ opened = <<>> /\ rendered = <<>> /\ term_queries = <<>> /\ sizes = <<>>
    /\ printed_rows = <<>>
    /\ ImportIdle /\ RenderIdle

args_env == <<image_paths, cols_arg, rows_arg, fs, stdin_ok, term>>
gallery_vars == <<sorted_image_paths, images_per_row, current_row_images,
                  current_row_paths, line, printed_rows>>

\* what a call of process_image(target, ..) that returned res leaves in the
\* record of calls; probes are the Image.open calls made just before it
Called(target, res, probes) ==
    /\ rendered' = Append(rendered, target)
    /\ term_queries' =
          IF res.queried THEN Append(term_queries, "process_image") ELSE term_queries
    /\ opened' = opened \o probes \o (IF res.opened THEN <<target>> ELSE <<>>)
    /\ sizes' = sizes \o res.size

\* lines 133-135: image = process_image(sys.stdin.buffer, args.cols, args.rows)
StdinRender ==
    /\ pc = "start" /\ Len(image_paths) = 1 /\ image_paths = <<"-">>
    /\ LET res == process_image(STDIN, cols_arg, rows_arg)
       IN  /\ Called(STDIN, res, <<>>)
           /\ IF res.exc # ""
              THEN pc' = "crashed" /\ UNCHANGED <<image, n>>
              ELSE pc' = "stdin_print" /\ image' = res.lines /\ n' = 1
    /\ UNCHANGED <<args_env, gallery_vars, stdout>>
    /\ UNCHANGED <<import_vars, render_vars>>

\* lines 137-138 and 143-144: print(text_row), inside `with safe_print()`
PrintRow ==
    /\ pc \in {"stdin_print", "file_print"} /\ n <= Len(image)
    /\ stdout' = stdout \o print(image[n])
    /\ n' = n + 1
    /\ UNCHANGED <<args_env, gallery_vars, pc, image, opened, rendered, term_queries,
                   sizes>>
    /\ UNCHANGED <<import_vars, render_vars>>

\* the for loop is over: the with block is left and safe_print resets
SafePrintExit ==
    /\ pc \in {"stdin_print", "file_print"} /\ n > Len(image)
    /\ stdout' = stdout \o safe_print_exit(FALSE)
    /\ pc' = IF pc = "stdin_print" THEN "file_check" ELSE "done"
    /\ UNCHANGED <<args_env, gallery_vars, image, n, opened, rendered, term_queries,
                   sizes>>
    /\ UNCHANGED <<import_vars, render_vars>>

\* lines 139-141: path = Path(args.image_paths[0]); if is_valid_image(path): ...
\* reached after the stdin branch as well, which has no else
FileCheck ==
    /\ \/ pc = "start" /\ Len(image_paths) = 1 /\ image_paths # <<"-">>
       \/ pc = "file_check"
    /\ LET path == image_paths[1]
       IN  IF is_valid_image(path)
           THEN LET res == process_image(path, cols_arg, rows_arg)
                IN  /\ Called(path, res, <<path>>)
                    /\ IF res.exc # ""
                       THEN pc' = "crashed" /\ UNCHANGED <<image, n>>
                       ELSE pc' = "file_print" /\ image' = res.lines /\ n' = 1
           ELSE /\ opened' = Append(opened, path)
                /\ pc' = "done"
                /\ UNCHANGED <<image, n, rendered, term_queries, sizes>>
    /\ UNCHANGED <<args_env, gallery_vars, stdout>>
    /\ UNCHANGED <<import_vars, render_vars>>

\* cols = args.cols; if not cols: cols = 40
gallery_cols == IF Falsy(cols_arg) THEN 40 ELSE cols_arg[1]

\* lines 147-162: the candidates, the sorted valid paths, images_per_row
GallerySetup ==
    /\ pc = "start" /\ Len(image_paths) # 1
    /\ LET candidates == IF image_paths = <<>> THEN iterdir ELSE image_paths
       IN  /\ opened' = opened \o candidates
           /\ sorted_image_paths' = sorted(FilterValid(candidates))
    /\ term_queries' = Append(term_queries, "main")
    /\ IF term = None
       THEN pc' = "crashed" /\ UNCHANGED <<images_per_row, n>>
       ELSE /\ images_per_row' = term[1] \div (gallery_cols + 2)
            /\ pc' = "loop" /\ n' = 1
    /\ UNCHANGED <<args_env, image, current_row_images, current_row_paths, line,
                   printed_rows, stdout, rendered, sizes>>
    /\ UNCHANGED <<import_vars, render_vars>>

\* line 169: len(current_row_images) == images_per_row
\*           or path == sorted_image_paths[-1]
flush_now(images, k) ==
    \/ Len(images) = images_per_row
    \/ sorted_image_paths[k] = sorted_image_paths[Len(sorted_image_paths)]

\* lines 166-169: one image is rendered and appended to the current row
LoopRender ==
    /\ pc = "loop" /\ n <= Len(sorted_image_paths)
    /\ LET path == sorted_image_paths[n]
           res == process_image(path, <<gallery_cols>>, rows_arg)
       IN  /\ Called(path, res, <<>>)
           /\ IF res.exc # ""
              THEN pc' = "crashed" /\ UNCHANGED <<current_row_images, current_row_paths>>
              ELSE /\ current_row_images' = Append(current_row_images, res.lines)
                   /\ current_row_paths' = Append(current_row_paths, path)
                   /\ pc' = IF flush_now(current_row_images', n)
                            THEN "flush_header" ELSE "loop"
           /\ n' = IF res.exc = "" /\ ~flush_now(Append(current_row_images, res.lines), n)
                   THEN n + 1 ELSE n
    /\ UNCHANGED <<args_env, image, sorted_image_paths, images_per_row, line,
                   printed_rows, stdout>>
    /\ UNCHANGED <<import_vars, render_vars>>

\* the for loop of line 166 is over: main returns
LoopEnd ==
    /\ pc = "loop" /\ n > Len(sorted_image_paths)
    /\ pc' = "done"
    /\ UNCHANGED <<args_env, gallery_vars, image, n, stdout, opened, rendered,
                   term_queries, sizes>>
    /\ UNCHANGED <<import_vars, render_vars>>

\* the header line of a grid row
header == Join([k \in 1..Len(current_row_paths) |->
                    <<Hdr(current_row_paths[k], gallery_cols)>>], Sep)

\* lines 170-171: max_rows, and the header line is printed
FlushHeader ==
    /\ pc = "flush_header"
    /\ stdout' = stdout \o print(header)
    /\ printed_rows' = Append(printed_rows,
          [paths |-> current_row_paths,
           heights |-> [k \in 1..Len(current_row_images) |-> Len(current_row_images[k])],
           lines |-> 0, blanks |-> 0])
    /\ line' = 0
    /\ pc' = "flush_lines"
    /\ UNCHANGED <<args_env, image, n, sorted_image_paths, images_per_row,
                   current_row_images, current_row_paths, opened, rendered,
                   term_queries, sizes>>
    /\ UNCHANGED <<import_vars, render_vars>>

\* image_lines = [im[line] if len(im) > line else blank_line for im in ...]
image_lines ==
    [k \in 1..Len(current_row_images) |->
        IF Len(current_row_images[k]) > line
        THEN current_row_images[k][line + 1]
        ELSE <<Blank(gallery_cols)>>]

\* lines 172-176: one line of the grid row is printed under safe_print
FlushLine ==
    /\ pc = "flush_lines" /\ line < MaxLen(current_row_images)
    /\ stdout' = stdout \o print(Join(image_lines, Sep)) \o safe_print_exit(FALSE)
    /\ printed_rows' =
          [printed_rows EXCEPT ![Len(printed_rows)] =
              [@ EXCEPT !.lines = @ + 1,
                        !.blanks = @ + Cardinality({k \in 1..Len(image_lines) :
                                        image_lines[k] = <<Blank(gallery_cols)>>})]]
    /\ line' = line + 1
    /\ UNCHANGED <<args_env, pc, image, n, sorted_image_paths, images_per_row,
                   current_row_images, current_row_paths, opened, rendered,
                   term_queries, sizes>>
    /\ UNCHANGED <<import_vars, render_vars>>

\* lines 177-179: the row separator is printed and the row is emptied
FlushSeparator ==
    /\ pc = "flush_lines" /\ line = MaxLen(current_row_images)
    /\ stdout' = Append(stdout, Nl)
    /\ current_row_images' = <<>> /\ current_row_paths' = <<>>
    /\ n' = n + 1
    /\ pc' = "loop"
    /\ UNCHANGED <<args_env, image, line, sorted_image_paths, images_per_row,
                   printed_rows, opened, rendered, term_queries, sizes>>
    /\ UNCHANGED <<import_vars, render_vars>>

Next ==
    \/ StdinRender \/ PrintRow \/ SafePrintExit \/ FileCheck
    \/ GallerySetup \/ LoopRender \/ LoopEnd
    \/ FlushHeader \/ FlushLine \/ FlushSeparator

Spec == MainInit /\ [][Next]_vars

(***************************************************************************)
(* main when a write to standard output can fail: print raises after a     *)
(* part of its text has been written.                                      *)
(***************************************************************************)
\* print(text_row) raises inside `with safe_print()` (single image, stdin)
PrintRowFail ==
    /\ pc \in {"stdin_print", "file_print"} /\ n <= Len(image)
    /\ \E m \in 0..Len(image[n]) :
          stdout' = stdout \o SubSeq(image[n], 1, m) \o safe_print_exit(TRUE)
    /\ pc' = "crashed"
    /\ UNCHANGED <<args_env, gallery_vars, image, n, opened, rendered, term_queries,
                   sizes>>
    /\ UNCHANGED <<import_vars, render_vars>>

\* print(output) raises inside `with safe_print()` (gallery)
FlushLineFail ==
    /\ pc = "flush_lines" /\ line < MaxLen(current_row_images)
    /\ \E m \in 0..Len(Join(image_lines, Sep)) :
          stdout' = stdout \o SubSeq(Join(image_lines, Sep), 1, m) \o safe_print_exit(TRUE)
    /\ pc' = "crashed"
    /\ UNCHANGED <<args_env, gallery_vars, image, n, opened, rendered, term_queries,
                   sizes>>
    /\ UNCHANGED <<import_vars, render_vars>>

\* the print of the header line raises: no guard is active
FlushHeaderFail ==
    /\ pc = "flush_header"
    /\ \E m \in 0..Len(header) : stdout' = stdout \o SubSeq(header, 1, m)
    /\ pc' = "crashed"
    /\ UNCHANGED <<args_env, gallery_vars, image, n, opened, rendered, term_queries,
                   sizes>>
    /\ UNCHANGED <<import_vars, render_vars>>

\* the print of the row separator raises: no guard is active
FlushSeparatorFail ==
    /\ pc = "flush_lines" /\ line = MaxLen(current_row_images)
    /\ pc' = "crashed"
    /\ UNCHANGED <<args_env, gallery_vars, image, n, stdout, opened, rendered,
                   term_queries, sizes>>
    /\ UNCHANGED <<import_vars, render_vars>>

NextIO ==
    \/ StdinRender \/ PrintRow \/ SafePrintExit \/ FileCheck
    \/ GallerySetup \/ LoopRender \/ LoopEnd
    \/ FlushHeader \/ FlushLine \/ FlushSeparator
    \/ PrintRowFail \/ FlushLineFail \/ FlushHeaderFail \/ FlushSeparatorFail

SpecIO == MainInit /\ [][NextIO]_vars

(***************************************************************************)
(* main: claims C6 (under SpecIO) and C7 .. C10 (under Spec).              *)
(***************************************************************************)
Terminated == pc \in {"done", "crashed"}

IsColor(tok) == tok[1] = "bg" \/ tok[1] = "fg"

\* a colour-setting escape sequence with no reset anywhere after it
ColorLeftOn(out) ==
    \E j \in 1..Len(out) :
        IsColor(out[j]) /\ \A k \in (j + 1)..Len(out) : out[k] # Reset

\* some colour-setting escape sequence has been written
HasColor(out) == \E j \in 1..Len(out) : IsColor(out[j])

\* C6 as stated: when a run that has written coloured output ends, normally or
\* by an error, in any of the three modes, a reset follows the last
\* colour-setting escape sequence and is the last thing written.
C6_ResetIsLastWritten ==
    (Terminated /\ HasColor(stdout)) =>
        /\ ~ColorLeftOn(stdout)
        /\ stdout[Len(stdout)] = Reset

\* C6 as amended: at every point of a run, and so at every exit, each
\* colour-setting escape sequence written is followed by a reset; in single
\* image and stdin mode the reset is also the last thing written when the run
\* ends; in gallery mode only uncoloured text follows the last reset.
C6_ResetFollowsColor ==
    /\ ~ColorLeftOn(stdout)
    /\ (Terminated /\ stdout # <<>> /\ Len(image_paths) = 1) =>
          stdout[Len(stdout)] = Reset
    /\ (Terminated /\ stdout # <<>> /\ Len(image_paths) # 1) =>
          \A j \in 1..Len(stdout) :
              (\A k \in j..Len(stdout) : stdout[k] # Reset) =>
                  stdout[j][1] \in {"nl", "sep", "hdr", "blank"}

\* C6's case: a guarded print failed right after a colour-setting escape
\* sequence, and the guard's reset is what follows it
C6_Witness ==
    /\ pc = "crashed" /\ Len(stdout) >= 2
    /\ IsColor(stdout[Len(stdout) - 1])
    /\ stdout[Len(stdout)] = Reset

RECURSIVE Occurrences(_, _)
\* how many times x occurs in the sequence s
Occurrences(s, x) ==
    IF s = <<>> THEN 0
    ELSE (IF s[1] = x THEN 1 ELSE 0) + Occurrences(Tail(s), x)

\* C7: with one positional path the stdin branch and the file branch exclude
\* each other: for `-` standard input is rendered once and no file named `-`
\* is opened or rendered; for another path the file is rendered once if it is
\* an image and nothing is written if it is not; at most one image is rendered.
C7_StdinXorFile ==
    Len(image_paths) = 1 =>
        /\ image_paths = <<"-">> =>
              /\ Occurrences(opened, "-") = 0
              /\ Occurrences(rendered, "-") = 0
              /\ pc = "done" => rendered = <<STDIN>>
        /\ (image_paths # <<"-">> /\ pc = "done") =>
              IF is_valid_image(image_paths[1])
              THEN rendered = <<image_paths[1]>>
              ELSE rendered = <<>> /\ stdout = <<>>
        /\ Len(rendered) <= 1

RECURSIVE RowPaths(_)
\* the paths of the printed grid rows, row after row
RowPaths(rows) ==
    IF rows = <<>> THEN <<>> ELSE rows[1].paths \o RowPaths(Tail(rows))

RECURSIVE MaxIn(_)
MaxIn(s) == IF Len(s) = 1 THEN s[1] ELSE Max(s[1], MaxIn(Tail(s)))

RECURSIVE Sum(_)
Sum(s) == IF s = <<>> THEN 0 ELSE s[1] + Sum(Tail(s))

\* the valid candidates of a gallery run, in ascending path order
ValidSorted == sorted(FilterValid(IF image_paths = <<>> THEN iterdir ELSE image_paths))

\* what C8 says of a gallery run that has ended
GalleryComplete ==
    /\ pc = "done"
    /\ rendered = ValidSorted
    /\ RowPaths(printed_rows) = ValidSorted
    /\ current_row_images = <<>> /\ current_row_paths = <<>>
    /\ \A k \in 1..Len(printed_rows) :
          /\ printed_rows[k].lines = MaxIn(printed_rows[k].heights)
          /\ printed_rows[k].blanks =
                Len(printed_rows[k].heights) * MaxIn(printed_rows[k].heights)
                   - Sum(printed_rows[k].heights)

\* C8: a gallery run ends without an error having rendered and printed exactly
\* the candidates that pass the probe, once each, in ascending path order, the
\* row buffer empty, each grid row as many lines long as its tallest thumbnail
\* with blank lines under the shorter ones; a candidate that fails the probe is
\* never handed to process_image.
C8_GalleryPrintsValidOnce ==
    Len(image_paths) # 1 =>
        /\ \A k \in 1..Len(rendered) : is_valid_image(rendered[k])
        /\ Terminated => GalleryComplete

\* The same, for the runs in which the terminal size is available.
GalleryCompleteWithTerminal ==
    (Len(image_paths) # 1 /\ term # None) =>
        /\ \A k \in 1..Len(rendered) : is_valid_image(rendered[k])
        /\ Terminated => GalleryComplete

\* C9: every printed grid row holds at most term_cols // (cols + 2) thumbnails,
\* so it is at most term_cols wide, and every row but the last holds exactly
\* that many.
C9_RowsWrapAtTerminalWidth ==
    (Len(image_paths) # 1 /\ term # None) =>
        LET per_row == term[1] \div (gallery_cols + 2)
        IN  \A k \in 1..Len(printed_rows) :
               LET count == Len(printed_rows[k].paths)
               IN  /\ count <= per_row
                   /\ count * gallery_cols + (count - 1) * 2 <= term[1]
                   /\ k < Len(printed_rows) => count = per_row

\* the box process_image is to use: explicit values, the terminal's otherwise
ExpectedBox ==
    LET c == IF Len(image_paths) # 1 THEN gallery_cols
             ELSE IF cols_arg # None THEN cols_arg[1] ELSE term[1]
        r == IF rows_arg # None THEN rows_arg[1] ELSE term[2]
    IN  <<c, r * 2>>

\* C10: the box handed to thumbnail is (cols, rows*2) with the explicit values
\* where given and the terminal's otherwise; with both -c and -r given,
\* process_image does not ask for the terminal size, and rendering a decodable
\* image ends without an error even when there is no terminal.
C10_ExplicitSizeNeedsNoTerminal ==
    /\ \A k \in 1..Len(sizes) : sizes[k] = ExpectedBox
    /\ (cols_arg # None /\ rows_arg # None) =>
          /\ Occurrences(term_queries, "process_image") = 0
          /\ (Len(image_paths) = 1 /\ image_paths # <<"-">>
                /\ is_valid_image(image_paths[1])) => pc # "crashed"

====
